---- MODULE Spec2Model ----
(***************************************************************************)
(* A model of arcpyext.mapping._mapping: the layer matcher                 *)
(* (_match_layers), the frame and document comparison                      *)
(* (_compare_map_frames, compare), the data source template matcher        *)
(* (create_replacement_data_sources_list), the deep comparison             *)
(* (_recursive_sort, _attr_deep_eq) and change_data_sources.               *)
(*                                                                         *)
(* Python dicts are functions from keys to values, so that "key in d" is   *)
(* k \in DOMAIN d; Python lists are sequences; Python's None is the value  *)
(* None below.                                                             *)
(***************************************************************************)
EXTENDS Integers, Sequences, FiniteSets, TLC

VARIABLES
    pc,               \* where the running function is: "start", "loop", "done", "raised"
    was_layers,       \* _match_layers: its first argument
    now_layers,       \* _match_layers: its second argument
    added,            \* _match_layers: the list of added layers
    matched,          \* _match_layers: the list of (was_layer, now_layer) pairs
    removed,          \* _match_layers: the list of removed layers
    resolved_was,     \* _match_layers: dict, index of a was layer -> now layer or None
    resolved_now,     \* _match_layers: dict, index of a now layer -> was layer or None
    was_map_desc,     \* _compare_map_frames: its first argument (a frame or None)
    now_map_desc,     \* _compare_map_frames: its second argument (a frame or None)
    map_differences,  \* _compare_map_frames: the frame diff it returns
    was_description,  \* compare: the old map description
    now_description,  \* compare: the new map description
    differences,      \* compare: the 'maps' list of the result, as built so far
    data_source_templates,      \* create_replacement_data_sources_list: the templates as passed
    raise_exception_no_change,  \* create_replacement_data_sources_list: the flag
    template_sets,    \* the templates with their criteria as sets; their dataSource
                      \* dicts are the caller's objects
    part,             \* which comprehension runs: "maps", "layers" or "tables"
    layer_or_table,   \* match_new_data_source: the argument of the last call
    new_conn,         \* match_new_data_source: what the last call returned
    layers_out,       \* the 'layers' list of the frame being processed
    tables_out,       \* the 'tables' list of the frame being processed
    frames_out,       \* the entries of the frames already processed
    returned,         \* what create_replacement_data_sources_list returned
    deep_a,           \* _attr_deep_eq: its first argument, a dict
    deep_b,           \* _attr_deep_eq: its second argument, a dict
    deep_eq,          \* _attr_deep_eq: what it returned
    mxd_or_proj,      \* change_data_sources: what was passed, "path" or "document"
    document_was_opened,  \* change_data_sources: the flag of that name
    errors,           \* change_data_sources: the MapLayerErrors collected so far
    saved,            \* change_data_sources: whether save() has been called
    maps_done,        \* change_data_sources: the iterations of the outer loop completed
    layer_sources,    \* change_data_sources: the layer sources of the frame still to do
    data_tables,      \* change_data_sources: the number of tables of the frame
    data_table_sources  \* change_data_sources: the table sources of the frame still to do

matchVars == <<was_layers, now_layers, added, matched, removed, resolved_was, resolved_now>>
frameVars == <<was_map_desc, now_map_desc, map_differences>>
compareVars == <<was_description, now_description, differences>>
replaceVars == <<data_source_templates, raise_exception_no_change, template_sets, part,
                 layer_or_table, new_conn, layers_out, tables_out, frames_out, returned>>
sortVars == <<deep_a, deep_b, deep_eq>>
changeVars == <<mxd_or_proj, document_was_opened, errors, saved, maps_done, layer_sources,
                data_tables, data_table_sources>>
vars == <<pc, matchVars, frameVars, compareVars, replaceVars, sortVars, changeVars>>

\* The variables of create_replacement_data_sources_list while another function runs.
ReplaceIdle ==
    /\ data_source_templates = <<>> /\ raise_exception_no_change = FALSE
    /\ template_sets = <<>> /\ part = "" /\ layer_or_table = <<>> /\ new_conn = <<>>
    /\ layers_out = <<>> /\ tables_out = <<>> /\ frames_out = <<>> /\ returned = <<>>

\* The variables of _attr_deep_eq while another function runs.
SortIdle == deep_a = <<>> /\ deep_b = <<>> /\ deep_eq = FALSE

\* The variables of change_data_sources while another function runs.
ChangeIdle ==
    /\ mxd_or_proj = "" /\ document_was_opened = FALSE /\ errors = <<>> /\ saved = FALSE
    /\ maps_done = 0 /\ layer_sources = <<>> /\ data_tables = 0
    /\ data_table_sources = <<>>

\* Python's None.
None == [None |-> TRUE]

\* The value of a variable that belongs to a function that is not running.
Idle == <<>>

----------------------------------------------------------------------------
(* Bounds of the model. *)

\* The longest list of layers handed to _match_layers.
MaxLayers == 2

----------------------------------------------------------------------------
(* Strings and lower-casing. *)

\* str.lower() on the strings the model uses.
LowerTable ==
    ("Roads" :> "roads") @@ ("Rivers" :> "rivers") @@
    ("C:\\GDB" :> "c:\\gdb") @@ ("D:\\GDB" :> "d:\\gdb") @@
    ("Type" :> "type") @@ ("TYPE" :> "type") @@
    ("Feature" :> "feature") @@ ("FEATURE" :> "feature") @@ ("Raster" :> "raster") @@
    ("isGroupLayer" :> "isgrouplayer") @@
    ("isNetworkAnalystLayer" :> "isnetworkanalystlayer") @@
    ("dataSource" :> "datasource") @@
    ("db.sde\\dbo.Roads\\Lines" :> "db.sde\\dbo.roads\\lines") @@
    ("db.gdb\\Roads\\Lines" :> "db.gdb\\roads\\lines") @@
    ("db.gdb\\Lines" :> "db.gdb\\lines") @@
    ("db.sde\\dbo.Lines" :> "db.sde\\dbo.lines") @@
    ("Lines.lyr" :> "lines.lyr")

lower(s) == IF s \in DOMAIN LowerTable THEN LowerTable[s] ELSE s

\* The keys whose values are strings (the others hold numbers or booleans).
StringKeys == {"name", "dataSource", "type", "Type", "TYPE"}

\* lowercase_dict: a new dict with every key lower-cased, and every value that
\* is a string lower-cased; other values unchanged.
lowercase_dict(d) ==
    [lk \in {lower(k) : k \in DOMAIN d} |->
        LET k == CHOOSE kk \in DOMAIN d : lower(kk) = lk
        IN  IF k \in StringKeys THEN lower(d[k]) ELSE d[k]]

\* dictionaries_eq_ignore_case
dictionaries_eq_ignore_case(a, b) == lowercase_dict(a) = lowercase_dict(b)

\* get_datasource_info: the data source part of a layer description.
get_datasource_info(a) == [k \in {"dataSource"} \cap DOMAIN a |-> a[k]]

----------------------------------------------------------------------------
(* _match_layers *)

_attr_shallow_eq(a, b, attr_key) ==
    IF attr_key \in DOMAIN a /\ attr_key \in DOMAIN b
    THEN b[attr_key] = a[attr_key]
    ELSE FALSE

is_resolved_was(rw, x) == x.index \in DOMAIN rw
is_resolved_now(rn, x) == x.index \in DOMAIN rn
same_id(a, b) == _attr_shallow_eq(a, b, "serviceId")
same_name(a, b) == _attr_shallow_eq(a, b, "name")
same_datasource(a, b) ==
    dictionaries_eq_ignore_case(get_datasource_info(a), get_datasource_info(b))

\* tests[t]['fn'](a, b) is not None, for the six tests in their order.
test_fn(t, a, b, rw, rn) ==
    CASE t = 1 -> same_id(a, b) /\ same_name(a, b) /\ same_datasource(a, b)
      [] t = 2 -> same_id(a, b) /\ same_name(a, b)
                  /\ ~is_resolved_was(rw, a) /\ ~is_resolved_now(rn, b)
      [] t = 3 -> same_id(a, b) /\ same_datasource(a, b)
                  /\ ~is_resolved_was(rw, a) /\ ~is_resolved_now(rn, b)
      [] t = 4 -> same_id(a, b)
                  /\ ~is_resolved_was(rw, a) /\ ~is_resolved_now(rn, b)
      [] t = 5 -> same_name(a, b) /\ same_datasource(a, b)
                  /\ ~is_resolved_was(rw, a) /\ ~is_resolved_now(rn, b)
      [] t = 6 -> same_name(a, b)
                  /\ ~is_resolved_was(rw, a) /\ ~is_resolved_now(rn, b)

\* The loop over the tests returns True at the first test that matches.
test_if_matching_layer(was_layer, now_layer, rw, rn) ==
    \E t \in 1..6 : test_fn(t, was_layer, now_layer, rw, rn)

\* The inner loop: the position of the first was layer that correlates to
\* now_layer, 0 when the loop ends with found = False.
find_was_layer(was, now_layer, rw, rn) ==
    LET hits == {j \in 1..Len(was) : test_if_matching_layer(was[j], now_layer, rw, rn)}
    IN  IF hits = {} THEN 0 ELSE CHOOSE j \in hits : \A h \in hits : j <= h

\* The loop over now_layers, from position i, with the state st so far.
RECURSIVE now_loop(_, _, _, _)
now_loop(was, now, i, st) ==
    IF i > Len(now) THEN st
    ELSE LET now_layer == now[i]
             j == find_was_layer(was, now_layer, st.resolved_was, st.resolved_now)
         IN  IF j > 0
             THEN now_loop(was, now, i + 1,
                    [st EXCEPT !.resolved_was = (was[j].index :> now_layer) @@ @,
                               !.resolved_now = (now_layer.index :> was[j]) @@ @])
             ELSE now_loop(was, now, i + 1,
                    [st EXCEPT !.resolved_now = (now_layer.index :> None) @@ @,
                               !.added = Append(@, now_layer)])

\* The loop that collects the removed layers.
RECURSIVE removed_loop(_, _, _)
removed_loop(was, j, st) ==
    IF j > Len(was) THEN st
    ELSE IF ~is_resolved_was(st.resolved_was, was[j])
         THEN removed_loop(was, j + 1,
                [st EXCEPT !.resolved_was = (was[j].index :> None) @@ @,
                           !.removed = Append(@, was[j])])
         ELSE removed_loop(was, j + 1, st)

\* The loop that collects the matched pairs.
RECURSIVE matched_loop(_, _, _)
matched_loop(was, j, st) ==
    IF j > Len(was) THEN st
    ELSE LET resolved_layer == st.resolved_was[was[j].index]
         IN  IF resolved_layer # None
             THEN matched_loop(was, j + 1,
                    [st EXCEPT !.matched = Append(@, <<was[j], resolved_layer>>)])
             ELSE matched_loop(was, j + 1, st)

_match_layers(was, now) ==
    LET st0 == [added |-> <<>>, matched |-> <<>>, removed |-> <<>>,
                resolved_was |-> <<>>, resolved_now |-> <<>>]
        st1 == now_loop(was, now, 1, st0)
        st2 == removed_loop(was, 1, st1)
    IN  matched_loop(was, 1, st2)

----------------------------------------------------------------------------
(* The layer descriptions _match_layers is run on. *)

\* The 'serviceId' of a layer: <<>> when the layer has no such key.
ServiceIds == {<<>>, <<1>>, <<2>>}
Names == {"Roads", "Rivers"}
DataSources == {"C:\\GDB", "c:\\gdb", "D:\\GDB"}

LayerDesc(idx, id, nm, ds) ==
    IF id = <<>>
    THEN [index |-> idx, name |-> nm, dataSource |-> ds]
    ELSE [index |-> idx, serviceId |-> id[1], name |-> nm, dataSource |-> ds]

\* The lists of at most n layers; a layer's index is its position in the list.
LayerLists(n) ==
    UNION {{[i \in 1..len |-> LayerDesc(i - 1, f[i][1], f[i][2], f[i][3])] :
              f \in [1..len -> ServiceIds \X Names \X DataSources]} : len \in 0..n}

InitMatch ==
    /\ pc = "start"
    /\ was_layers \in LayerLists(MaxLayers)
    /\ now_layers \in LayerLists(MaxLayers)
    /\ added = Idle /\ matched = Idle /\ removed = Idle
    /\ resolved_was = Idle /\ resolved_now = Idle
    /\ was_map_desc = Idle /\ now_map_desc = Idle /\ map_differences = Idle
    /\ was_description = Idle /\ now_description = Idle /\ differences = Idle
    /\ ReplaceIdle /\ SortIdle /\ ChangeIdle

MatchLayers ==
    /\ pc = "start"
    /\ LET st == _match_layers(was_layers, now_layers)
       IN  /\ added' = st.added
           /\ matched' = st.matched
           /\ removed' = st.removed
           /\ resolved_was' = st.resolved_was
           /\ resolved_now' = st.resolved_now
    /\ pc' = "done"
    /\ UNCHANGED <<sortVars, changeVars, was_layers, now_layers, frameVars, compareVars, replaceVars>>

NextMatch == MatchLayers

SpecMatch == InitMatch /\ [][NextMatch]_vars

----------------------------------------------------------------------------
(* _compare_map_frames *)

\* The longest list of layers in a frame handed to _compare_map_frames.
MaxFrameLayers == 1

\* d.get(k)
Get(d, k) == IF k \in DOMAIN d THEN d[k] ELSE None

\* The entry of a diff for one field.
DiffEntry(f, a, b) == [field |-> f, was |-> Get(a, f), now |-> Get(b, f)]

\* Whether LayerChangeTypes.compare reports field f: a field in neither
\* description is never reported, a field in one of them only always is, the
\* name and the serviceId are compared as they are, the data source ignoring case.
layer_field_changed(f, a, b) ==
    CASE f \notin DOMAIN a /\ f \notin DOMAIN b -> FALSE
      [] f \notin DOMAIN a \/ f \notin DOMAIN b -> TRUE
      [] f = "dataSource" -> ~same_datasource(a, b)
      [] OTHER -> a[f] # b[f]

\* LayerChangeTypes.compare: the changed fields of a layer, in a fixed order.
LayerChangeTypes_compare(a, b) ==
    LET fields == <<"serviceId", "name", "dataSource">>
        F[i \in 0..Len(fields)] ==
            IF i = 0 THEN <<>>
            ELSE IF layer_field_changed(fields[i], a, b)
                 THEN Append(F[i - 1], DiffEntry(fields[i], a, b))
                 ELSE F[i - 1]
    IN  F[Len(fields)]

\* MapChangeTypes.compare: the changed fields of a frame.
MapChangeTypes_compare(a, b) ==
    IF a.name # b.name THEN <<DiffEntry("name", a, b)>> ELSE <<>>

\* now_layer = now_layer.copy(); now_layer["diff"] = ...
with_diff(now_layer, d) ==
    [k \in DOMAIN now_layer \cup {"diff"} |-> IF k = "diff" THEN d ELSE now_layer[k]]

\* A layer is reported whatever its diff holds.
is_updated_always(now_layer) == Len(now_layer["diff"]) >= 0

\* if len(now_layer["diff"]) > 0
is_updated(now_layer) == Len(now_layer["diff"]) > 0

\* The loop over the matched pairs, which fills map_differences["layers"]["updated"].
RECURSIVE updated_loop(_, _, _)
updated_loop(pairs, i, updated) ==
    IF i > Len(pairs) THEN updated
    ELSE LET now_layer == with_diff(pairs[i][2],
                                    LayerChangeTypes_compare(pairs[i][1], pairs[i][2]))
         IN  updated_loop(pairs, i + 1,
                          IF is_updated(now_layer) THEN Append(updated, now_layer)
                          ELSE updated)

\* The frame diff _compare_map_frames starts from.
EmptyMapDifferences ==
    [diff |-> <<>>,
     layers |-> [added |-> <<>>, updated |-> <<>>, removed |-> <<>>],
     tables |-> <<>>]

\* _compare_map_frames: [raised, value, matched]. Subscripting now_map_desc
\* raises a TypeError when it is None.
_compare_map_frames(was, now) ==
    IF was = None
    THEN [raised |-> FALSE, value |-> EmptyMapDifferences, matched |-> <<>>]
    ELSE IF now = None
    THEN [raised |-> TRUE, value |-> None, matched |-> <<>>]
    ELSE LET m == _match_layers(was.layers, now.layers)
         IN  [raised |-> FALSE,
              value |-> [diff |-> MapChangeTypes_compare(was, now),
                         layers |-> [added |-> m.added,
                                     updated |-> updated_loop(m.matched, 1, <<>>),
                                     removed |-> m.removed],
                         tables |-> <<>>],
              matched |-> m.matched]

\* The tables of a frame: none, or one.
TableLists == {<<>>, <<LayerDesc(0, <<>>, "Rivers", "D:\\GDB")>>}

FrameDesc(ls, ts) == [name |-> "Layers", layers |-> ls, tables |-> ts]

Frames(n) == {FrameDesc(ls, ts) : ls \in LayerLists(n), ts \in TableLists}

InitFrame ==
    /\ pc = "start"
    /\ was_map_desc \in Frames(MaxFrameLayers) \cup {None}
    /\ now_map_desc \in Frames(MaxFrameLayers) \cup {None}
    /\ ~(was_map_desc = None /\ now_map_desc = None)
    /\ map_differences = Idle
    /\ was_layers = Idle /\ now_layers = Idle
    /\ added = Idle /\ matched = Idle /\ removed = Idle
    /\ resolved_was = Idle /\ resolved_now = Idle
    /\ was_description = Idle /\ now_description = Idle /\ differences = Idle
    /\ ReplaceIdle /\ SortIdle /\ ChangeIdle

CompareMapFrames ==
    /\ pc = "start"
    /\ LET r == _compare_map_frames(was_map_desc, now_map_desc)
       IN  /\ pc' = IF r.raised THEN "raised" ELSE "done"
           /\ map_differences' = r.value
           /\ matched' = r.matched
    /\ UNCHANGED <<sortVars, changeVars, was_layers, now_layers, added, removed, resolved_was, resolved_now,
                   was_map_desc, now_map_desc, compareVars, replaceVars>>

NextFrame == CompareMapFrames

SpecFrame == InitFrame /\ [][NextFrame]_vars

----------------------------------------------------------------------------
(* compare *)

\* The longest 'maps' list of a map description handed to compare.
MaxFrames == 2

\* The frames of the map descriptions handed to compare.
CompareFrames ==
    {FrameDesc(<<>>, <<>>),
     FrameDesc(<<LayerDesc(0, <<1>>, "Roads", "C:\\GDB")>>, <<>>),
     FrameDesc(<<LayerDesc(0, <<1>>, "Roads", "D:\\GDB")>>,
               <<LayerDesc(0, <<>>, "Rivers", "D:\\GDB")>>)}

Descriptions(n) ==
    UNION {{[maps |-> fs] : fs \in [1..len -> CompareFrames]} : len \in 0..n}

Max(a, b) == IF a >= b THEN a ELSE b

\* zip_longest: position k of a list, None past its end.
zip_longest_at(list, k) == IF k <= Len(list) THEN list[k] ELSE None

InitCompare ==
    /\ pc = "loop"
    /\ was_description \in Descriptions(MaxFrames)
    /\ now_description \in Descriptions(MaxFrames)
    /\ differences = <<>>
    /\ was_layers = Idle /\ now_layers = Idle
    /\ added = Idle /\ matched = Idle /\ removed = Idle
    /\ resolved_was = Idle /\ resolved_now = Idle
    /\ was_map_desc = Idle /\ now_map_desc = Idle /\ map_differences = Idle
    /\ ReplaceIdle /\ SortIdle /\ ChangeIdle

\* One element of the list comprehension over zip_longest(was maps, now maps).
\* The document-level diff (DocumentChangeTypes.compare) is not modelled.
CompareFrame ==
    /\ pc = "loop"
    /\ Len(differences) < Max(Len(was_description.maps), Len(now_description.maps))
    /\ LET k == Len(differences) + 1
           r == _compare_map_frames(zip_longest_at(was_description.maps, k),
                                    zip_longest_at(now_description.maps, k))
       IN  IF r.raised
           THEN pc' = "raised" /\ UNCHANGED differences
           ELSE pc' = "loop" /\ differences' = Append(differences, r.value)
    /\ UNCHANGED <<sortVars, changeVars, matchVars, frameVars, was_description, now_description, replaceVars>>

\* The end of the list comprehension: compare returns.
CompareReturn ==
    /\ pc = "loop"
    /\ Len(differences) = Max(Len(was_description.maps), Len(now_description.maps))
    /\ pc' = "done"
    /\ UNCHANGED <<sortVars, changeVars, matchVars, frameVars, compareVars, replaceVars>>

NextCompare == CompareFrame \/ CompareReturn

SpecCompare == InitCompare /\ [][NextCompare]_vars

----------------------------------------------------------------------------
(* create_replacement_data_sources_list *)

\* The longest list of templates.
MaxTemplates == 2
\* The most layers and tables of a map description, over all its frames.
MaxItems == 2
\* The longest 'maps' list of a map description handed to
\* create_replacement_data_sources_list.
MaxMaps == 1

\* d.get(k) == True
get_is_true(d, k) == k \in DOMAIN d /\ d[k] = TRUE

\* freeze, on a dict of scalars: the set of the (key, value) pairs of the
\* lower-cased dict.
freeze(d) == LET ld == lowercase_dict(d) IN {<<k, ld[k]>> : k \in DOMAIN ld}

\* template_sets: each template with its matchCriteria replaced by the set of
\* the pairs of the lower-cased criteria.
make_template_sets(templates) ==
    [i \in 1..Len(templates) |->
        [k \in DOMAIN templates[i] |->
            IF k = "matchCriteria"
            THEN LET lc == lowercase_dict(templates[i][k])
                 IN  {<<c, lc[c]>> : c \in DOMAIN lc}
            ELSE templates[i][k]]]

\* tokenise_datasource: the schema, data set and table named by a data source
\* path (each a sequence of at most one string, <<>> for Python's None), or
\* None when the path does not tokenise.
tokenise_datasource(ds) ==
    CASE ds = "db.sde\\dbo.Roads\\Lines" ->
            [schema |-> <<"dbo">>, dataSet |-> <<"Roads">>, table |-> <<"Lines">>]
      [] ds = "db.gdb\\Roads\\Lines" ->
            [schema |-> <<>>, dataSet |-> <<"Roads">>, table |-> <<"Lines">>]
      [] ds = "db.gdb\\Lines" ->
            [schema |-> <<>>, dataSet |-> <<>>, table |-> <<"Lines">>]
      [] ds = "db.sde\\dbo.Lines" ->
            [schema |-> <<"dbo">>, dataSet |-> <<>>, table |-> <<"Lines">>]
      [] OTHER -> None

\* Every group layer is skipped, network-analyst layers too.
is_skipped_all_groups(l) == l = None \/ get_is_true(l, "isGroupLayer")

\* Layers that can't be described or are group layers (except NA layers).
is_skipped(l) ==
    \/ l = None
    \/ get_is_true(l, "isGroupLayer") /\ ~get_is_true(l, "isNetworkAnalystLayer")

\* The loop over template_sets without its break: the last template whose
\* criteria are a subset of the frozen layer, 0 when there is none.
matching_template_last(tsets, l) ==
    LET hits == {t \in 1..Len(tsets) : tsets[t].matchCriteria \subseteq freeze(l)}
    IN  IF hits = {} THEN 0 ELSE CHOOSE t \in hits : \A h \in hits : t >= h

\* The loop over template_sets, left at the first template whose criteria are
\* a subset of the frozen layer: its position, 0 when there is none.
matching_template(tsets, l) ==
    LET hits == {t \in 1..Len(tsets) : tsets[t].matchCriteria \subseteq freeze(l)}
    IN  IF hits = {} THEN 0 ELSE CHOOSE t \in hits : \A h \in hits : t <= h

\* template.get("matchOptions", {}).get("isWorkspaceContainer") == True
is_workspace_container(template) ==
    "matchOptions" \in DOMAIN template
        /\ get_is_true(template.matchOptions, "isWorkspaceContainer")

\* The three "{}\\{}.gdb" formats, by the tokens that are not None.
container_workspace_path(base, tokens) ==
    IF tokens.dataSet # <<>> /\ tokens.schema # <<>>
    THEN base \o "\\" \o tokens.schema[1] \o "." \o tokens.dataSet[1] \o ".gdb"
    ELSE IF tokens.dataSet # <<>>
    THEN base \o "\\" \o tokens.dataSet[1] \o ".gdb"
    ELSE base \o "\\" \o tokens.table[1] \o ".gdb"

\* new_conn for the matching template: a copy of its dataSource, with the
\* workspacePath of a workspace container replaced when the tokens are not None.
new_connection(template, l) ==
    LET conn == template.dataSource
        tokens == tokenise_datasource(l.dataSource)
    IN  IF is_workspace_container(template) /\ tokens # None
        THEN [conn EXCEPT !.workspacePath = container_workspace_path(@, tokens)]
        ELSE conn

\* new_conn is the template's dataSource itself: what is assigned to new_conn
\* is assigned to the template.
template_sets_aliased(tsets, t, conn) == [tsets EXCEPT ![t].dataSource = conn]

\* new_conn is a copy of the template's dataSource: assigning to new_conn
\* leaves the templates as they are.
template_sets_copied(tsets, t, conn) == tsets

\* The no-match error is raised whatever the flag says.
raises_no_change_always(conn, flag) == conn = None

\* if new_conn == None and raise_exception_no_change: raise
raises_no_change(conn, flag) == conn = None /\ flag

\* match_new_data_source: [raised, new_conn, template_sets].
match_new_data_source(l, tsets, flag) ==
    IF is_skipped(l)
    THEN [raised |-> FALSE, new_conn |-> None, template_sets |-> tsets]
    ELSE LET t == matching_template(tsets, l)
             conn == IF t = 0 THEN None ELSE new_connection(tsets[t], l)
         IN  [raised |-> raises_no_change(conn, flag),
              new_conn |-> conn,
              template_sets |-> IF t = 0 THEN tsets
                                ELSE template_sets_copied(tsets, t, conn)]

\* The templates the lists of data_source_templates are made of.
Templates ==
    {[matchCriteria |-> [Type |-> "FEATURE"],
      dataSource |-> [workspacePath |-> "C:\\Data"],
      matchOptions |-> [isWorkspaceContainer |-> TRUE]],
     [matchCriteria |-> [type |-> "feature"],
      dataSource |-> [workspacePath |-> "D:\\Data"]],
     [matchCriteria |-> [type |-> "feature", scale |-> 10],
      dataSource |-> [workspacePath |-> "E:\\Data"],
      matchOptions |-> [isWorkspaceContainer |-> FALSE]],
     [matchCriteria |-> [type |-> "raster"],
      dataSource |-> [workspacePath |-> "F:\\Data"],
      matchOptions |-> [isWorkspaceContainer |-> TRUE]]}

TemplateLists(n) == UNION {[1..len -> Templates] : len \in 0..n}

\* The data source paths that tokenise.
DataSourcePaths ==
    {"db.sde\\dbo.Roads\\Lines", "db.gdb\\Roads\\Lines", "db.gdb\\Lines",
     "db.sde\\dbo.Lines"}

\* The layers and tables of a map description: a layer that cannot be
\* described (None); feature tables, which have no group flags, one for each
\* data source path that tokenises; a raster table; a feature layer whose data
\* source does not tokenise; a group layer; a network-analyst group layer.
Items ==
    {None}
    \cup {[type |-> "Feature", dataSource |-> ds] : ds \in DataSourcePaths}
    \cup {[type |-> "Raster", dataSource |-> "db.gdb\\Lines"]}
    \cup {[type |-> "Feature", dataSource |-> "Lines.lyr",
           isGroupLayer |-> FALSE, isNetworkAnalystLayer |-> FALSE]}
    \cup {[type |-> "Feature", dataSource |-> "db.sde\\dbo.Roads\\Lines",
           isGroupLayer |-> TRUE, isNetworkAnalystLayer |-> na] : na \in BOOLEAN}

\* The layers and tables processed so far.
ItemsDone ==
    LET F[i \in 0..Len(frames_out)] ==
            IF i = 0 THEN 0
            ELSE F[i - 1] + Len(frames_out[i].layers) + Len(frames_out[i].tables)
    IN  F[Len(frames_out)] + Len(layers_out) + Len(tables_out)

InitReplace ==
    /\ pc = "loop"
    /\ data_source_templates \in TemplateLists(MaxTemplates)
    /\ raise_exception_no_change \in BOOLEAN
    /\ template_sets = make_template_sets(data_source_templates)
    /\ part = "maps"
    /\ layer_or_table = Idle /\ new_conn = Idle
    /\ layers_out = <<>> /\ tables_out = <<>> /\ frames_out = <<>>
    /\ returned = None
    /\ was_layers = Idle /\ now_layers = Idle
    /\ added = Idle /\ matched = Idle /\ removed = Idle
    /\ resolved_was = Idle /\ resolved_now = Idle
    /\ was_map_desc = Idle /\ now_map_desc = Idle /\ map_differences = Idle
    /\ was_description = Idle /\ now_description = Idle /\ differences = Idle
    /\ SortIdle /\ ChangeIdle

\* The comprehension over map_desc["maps"] reaches a frame.
BeginFrame ==
    /\ pc = "loop" /\ part = "maps"
    /\ Len(frames_out) < MaxMaps
    /\ part' = "layers"
    /\ UNCHANGED <<sortVars, changeVars, pc, matchVars, frameVars, compareVars, data_source_templates,
                   raise_exception_no_change, template_sets, layer_or_table, new_conn,
                   layers_out, tables_out, frames_out, returned>>

\* match_new_data_source(layer) for the next layer of df["layers"].
MatchLayer ==
    /\ pc = "loop" /\ part = "layers"
    /\ ItemsDone < MaxItems
    /\ \E layer \in Items :
          LET r == match_new_data_source(layer, template_sets, raise_exception_no_change)
          IN  /\ layer_or_table' = layer
              /\ new_conn' = r.new_conn
              /\ template_sets' = r.template_sets
              /\ IF r.raised
                 THEN pc' = "raised" /\ UNCHANGED layers_out
                 ELSE pc' = "loop" /\ layers_out' = Append(layers_out, r.new_conn)
    /\ UNCHANGED <<sortVars, changeVars, matchVars, frameVars, compareVars, data_source_templates,
                   raise_exception_no_change, part, tables_out, frames_out, returned>>

\* The comprehension over df["layers"] ends, the one over df["tables"] starts.
EndLayers ==
    /\ pc = "loop" /\ part = "layers"
    /\ part' = "tables"
    /\ UNCHANGED <<sortVars, changeVars, pc, matchVars, frameVars, compareVars, data_source_templates,
                   raise_exception_no_change, template_sets, layer_or_table, new_conn,
                   layers_out, tables_out, frames_out, returned>>

\* match_new_data_source(table) for the next table of df["tables"].
MatchTable ==
    /\ pc = "loop" /\ part = "tables"
    /\ ItemsDone < MaxItems
    /\ \E table \in Items :
          LET r == match_new_data_source(table, template_sets, raise_exception_no_change)
          IN  /\ layer_or_table' = table
              /\ new_conn' = r.new_conn
              /\ template_sets' = r.template_sets
              /\ IF r.raised
                 THEN pc' = "raised" /\ UNCHANGED tables_out
                 ELSE pc' = "loop" /\ tables_out' = Append(tables_out, r.new_conn)
    /\ UNCHANGED <<sortVars, changeVars, matchVars, frameVars, compareVars, data_source_templates,
                   raise_exception_no_change, part, layers_out, frames_out, returned>>

\* The comprehension over df["tables"] ends: the frame's entry is complete.
EndFrame ==
    /\ pc = "loop" /\ part = "tables"
    /\ frames_out' = Append(frames_out, [layers |-> layers_out, tables |-> tables_out])
    /\ layers_out' = <<>> /\ tables_out' = <<>>
    /\ part' = "maps"
    /\ UNCHANGED <<sortVars, changeVars, pc, matchVars, frameVars, compareVars, data_source_templates,
                   raise_exception_no_change, template_sets, layer_or_table, new_conn,
                   returned>>

\* The comprehension over map_desc["maps"] ends: the list is returned.
ReturnList ==
    /\ pc = "loop" /\ part = "maps"
    /\ returned' = frames_out
    /\ pc' = "done"
    /\ UNCHANGED <<sortVars, changeVars, matchVars, frameVars, compareVars, data_source_templates,
                   raise_exception_no_change, template_sets, part, layer_or_table,
                   new_conn, layers_out, tables_out, frames_out>>

NextReplace ==
    BeginFrame \/ MatchLayer \/ EndLayers \/ MatchTable \/ EndFrame \/ ReturnList

SpecReplace == InitReplace /\ [][NextReplace]_vars

----------------------------------------------------------------------------
(* _recursive_sort and _attr_deep_eq.                                      *)
(*                                                                         *)
(* A value handed to _recursive_sort carries its Python type: a string is  *)
(* Str(s), a list is List(seq), a dict is Dict(items) with items the       *)
(* (key, value) pairs in the order d.items() yields them, and a tuple is   *)
(* Tuple(seq).                                                             *)

\* The longest list, and the largest dict, handed to _recursive_sort.
MaxElems == 2

Str(s) == [kind |-> "str", val |-> s]
List(seq) == [kind |-> "list", val |-> seq]
Dict(items) == [kind |-> "dict", val |-> items]
Tuple(seq) == [kind |-> "tuple", val |-> seq]

\* The strings of the values: two that differ in case only, and a third.
SortStrings == {"Type", "type", "name"}

\* The code points of the strings' first letters ('T', 'n', 't'): str.__lt__
\* orders the strings of the model by them.
StrOrd(s) == CASE s = "Type" -> 84 [] s = "name" -> 110 [] s = "type" -> 116

RECURSIVE Less(_, _)
RECURSIVE SeqLess(_, _)

\* x < y as sorted() evaluates it: strings by code point, lists and tuples
\* lexicographically.
Less(x, y) ==
    IF x.kind = "str" /\ y.kind = "str" THEN StrOrd(x.val) < StrOrd(y.val)
    ELSE IF x.kind = y.kind /\ x.kind \in {"list", "tuple"} THEN SeqLess(x.val, y.val)
    ELSE FALSE

\* The lexicographic order of two sequences: the first position where they
\* differ decides, and a proper prefix is the smaller.
SeqLess(s, t) ==
    IF t = <<>> THEN FALSE
    ELSE IF s = <<>> THEN TRUE
    ELSE IF Head(s) = Head(t) THEN SeqLess(Tail(s), Tail(t))
    ELSE Less(Head(s), Head(t))

\* x put into the sorted sequence seq, behind the elements that are not
\* greater than it (sorted() is stable).
Insert(seq, x) ==
    LET greater == {i \in 1..Len(seq) : Less(x, seq[i])}
        at == IF greater = {} THEN Len(seq) + 1
              ELSE CHOOSE i \in greater : \A j \in greater : i <= j
    IN  SubSeq(seq, 1, at - 1) \o <<x>> \o SubSeq(seq, at, Len(seq))

\* The elements in the order they were given.
sorted_as_given(seq) == seq

\* The builtin sorted(): the elements in ascending order.
sorted(seq) ==
    LET F[i \in 0..Len(seq)] == IF i = 0 THEN <<>> ELSE Insert(F[i - 1], seq[i])
    IN  F[Len(seq)]

RECURSIVE _recursive_sort(_)

_recursive_sort(obj) ==
    IF obj.kind = "dict"
    THEN List(sorted([i \in 1..Len(obj.val) |->
                         Tuple(<<Str(obj.val[i][1]), _recursive_sort(obj.val[i][2])>>)]))
    ELSE IF obj.kind = "list"
    THEN List(sorted([i \in 1..Len(obj.val) |-> _recursive_sort(obj.val[i])]))
    ELSE obj

_attr_deep_eq(a, b, attr_key) ==
    IF attr_key \in DOMAIN a /\ attr_key \in DOMAIN b
    THEN _recursive_sort(a[attr_key]) = _recursive_sort(b[attr_key])
    ELSE FALSE

\* The sequences over S of at most n elements.
SeqsUpTo(S, n) == UNION {[1..k -> S] : k \in 0..n}

\* The dicts of at most n entries with keys from K and values from V, one for
\* each order of insertion.
DictsUpTo(K, V, n) ==
    {Dict(items) : items \in
        {s \in SeqsUpTo(K \X V, n) : \A i, j \in 1..Len(s) : i # j => s[i][1] # s[j][1]}}

StrValues == {Str(s) : s \in SortStrings}

\* The values compared: strings, lists of strings, dicts of strings, dicts
\* that hold a list, and lists of dicts.
SortValues ==
    StrValues
    \cup {List(seq) : seq \in SeqsUpTo(StrValues, MaxElems)}
    \cup DictsUpTo(SortStrings, StrValues, MaxElems)
    \cup DictsUpTo(SortStrings, {List(seq) : seq \in SeqsUpTo(StrValues, MaxElems)}, 1)
    \cup {List(seq) : seq \in SeqsUpTo(DictsUpTo({"name"}, StrValues, 1), MaxElems)}

\* The key the two dicts are compared under.
AttrKey == "symbology"

\* The dicts handed to _attr_deep_eq: with the key, or without it.
AttrHolders == {<<>>} \cup {(AttrKey :> v) : v \in SortValues}

InitSort ==
    /\ pc = "start"
    /\ deep_a \in AttrHolders
    /\ deep_b \in AttrHolders
    /\ deep_eq = FALSE
    /\ was_layers = Idle /\ now_layers = Idle
    /\ added = Idle /\ matched = Idle /\ removed = Idle
    /\ resolved_was = Idle /\ resolved_now = Idle
    /\ was_map_desc = Idle /\ now_map_desc = Idle /\ map_differences = Idle
    /\ was_description = Idle /\ now_description = Idle /\ differences = Idle
    /\ ReplaceIdle /\ ChangeIdle

\* _attr_deep_eq(a, b, attr_key) runs.
AttrDeepEq ==
    /\ pc = "start"
    /\ deep_eq' = _attr_deep_eq(deep_a, deep_b, AttrKey)
    /\ pc' = "done"
    /\ UNCHANGED <<deep_a, deep_b, matchVars, frameVars, compareVars, replaceVars,
                   changeVars>>

NextSort == AttrDeepEq

SpecSort == InitSort /\ [][NextSort]_vars

----------------------------------------------------------------------------
(* change_data_sources.                                                    *)
(*                                                                         *)
(* The document and the helpers of _mapping2/_mapping3 are outside this    *)
(* file: a frame of the document is the number of its layers and of its    *)
(* tables, and a call of _change_data_source ends in one of                *)
(* ChangeOutcomes.  A value that may be None is a sequence of at most one  *)
(* element, <<>> for None.                                                 *)

\* The most iterations of the loop over the maps.
MaxChangeMaps == 2

\* The most layers, and the most tables, of a map.
MaxChangeItems == 1

\* A data source to change a layer or a table to.
NewSource == [workspacePath |-> "D:\\GDB"]

\* The lists of sources given for the layers or the tables of a map: None, or
\* a list whose elements are a data source or None.
SourceLists == {<<>>} \cup {<<l>> : l \in SeqsUpTo({None, NewSource}, MaxChangeItems)}

\* What zip_longest yields for map_data_sources: a dict with both keys, a
\* dict that lacks one, or None once data_sources is exhausted.
MapDataSources ==
    [layers : SourceLists, tables : SourceLists]
    \cup {[layers |-> <<<<>>>>], [tables |-> <<<<>>>>], None}

\* How a call of _mh._change_data_source ends: it returns, it raises a
\* MapLayerError, or it raises another exception (line 96).
ChangeOutcomes == {"returns", "MapLayerError", "KeyError"}

\* save() is called although errors were collected.
saved_despite_errors(opened, errs) == opened

\* Whether the try block of lines 122-129 calls save().
saved_at_end(opened, errs) == Len(errs) = 0 /\ opened

InitChange ==
    /\ pc = "start"
    /\ mxd_or_proj \in {"path", "document"}
    /\ document_was_opened = FALSE /\ errors = <<>> /\ saved = FALSE
    /\ maps_done = 0 /\ layer_sources = <<>> /\ data_tables = 0
    /\ data_table_sources = <<>>
    /\ was_layers = Idle /\ now_layers = Idle
    /\ added = Idle /\ matched = Idle /\ removed = Idle
    /\ resolved_was = Idle /\ resolved_now = Idle
    /\ was_map_desc = Idle /\ now_map_desc = Idle /\ map_differences = Idle
    /\ was_description = Idle /\ now_description = Idle /\ differences = Idle
    /\ ReplaceIdle /\ SortIdle

\* Lines 64-71: a path is opened, a document is taken as it is.
OpenDocument ==
    /\ pc = "start"
    /\ document_was_opened' = (mxd_or_proj = "path")
    /\ errors' = <<>>
    /\ pc' = "maps"
    /\ UNCHANGED <<mxd_or_proj, saved, maps_done, layer_sources, data_tables,
                   data_table_sources, matchVars, frameVars, compareVars, replaceVars,
                   sortVars>>

\* Lines 74-83: the loop over the maps reaches a map with n_layers layers and
\* n_tables tables, and checks its data sources.
NextMap ==
    /\ pc = "maps"
    /\ maps_done < MaxChangeMaps
    /\ \E map_data_sources \in MapDataSources, n_layers, n_tables \in 0..MaxChangeItems :
          IF \/ map_data_sources = None
             \/ "layers" \notin DOMAIN map_data_sources
             \/ "tables" \notin DOMAIN map_data_sources
             \/ map_data_sources["layers"] = <<>>
             \/ n_layers # Len(map_data_sources["layers"][1])
          THEN /\ pc' = "raised"
               /\ UNCHANGED <<layer_sources, data_tables, data_table_sources>>
          ELSE /\ pc' = "layers"
               /\ layer_sources' = map_data_sources["layers"][1]
               /\ data_tables' = n_tables
               /\ data_table_sources' = map_data_sources["tables"]
    /\ UNCHANGED <<mxd_or_proj, document_was_opened, errors, saved, maps_done, matchVars,
                   frameVars, compareVars, replaceVars, sortVars>>

\* Lines 85-99: the next layer of the map.
ChangeLayer ==
    /\ pc = "layers"
    /\ layer_sources # <<>>
    /\ layer_sources' = Tail(layer_sources)
    /\ \E outcome \in ChangeOutcomes :
          IF Head(layer_sources) = None \/ outcome = "returns"
          THEN UNCHANGED <<pc, errors>>
          ELSE IF outcome = "MapLayerError"
          THEN errors' = Append(errors, outcome) /\ UNCHANGED pc
          ELSE pc' = "raised" /\ UNCHANGED errors
    /\ UNCHANGED <<mxd_or_proj, document_was_opened, saved, maps_done, data_tables,
                   data_table_sources, matchVars, frameVars, compareVars, replaceVars,
                   sortVars>>

\* Lines 101-105: the layers are done, the number of tables is checked.
CheckTables ==
    /\ pc = "layers"
    /\ layer_sources = <<>>
    /\ pc' = IF data_table_sources = <<>> \/ data_tables # Len(data_table_sources[1])
             THEN "raised"
             ELSE "tables"
    /\ UNCHANGED <<changeVars, matchVars, frameVars, compareVars, replaceVars, sortVars>>

\* Lines 107-120: the next table of the map.
ChangeTable ==
    /\ pc = "tables"
    /\ data_table_sources[1] # <<>>
    /\ data_table_sources' = <<Tail(data_table_sources[1])>>
    /\ \E outcome \in ChangeOutcomes :
          IF Head(data_table_sources[1]) = None \/ outcome = "returns"
          THEN UNCHANGED <<pc, errors>>
          ELSE IF outcome = "MapLayerError"
          THEN errors' = Append(errors, outcome) /\ UNCHANGED pc
          ELSE pc' = "raised" /\ UNCHANGED errors
    /\ UNCHANGED <<mxd_or_proj, document_was_opened, saved, maps_done, layer_sources,
                   data_tables, matchVars, frameVars, compareVars, replaceVars, sortVars>>

\* The tables are done: the loop over the maps goes on.
EndMap ==
    /\ pc = "tables"
    /\ data_table_sources[1] = <<>>
    /\ maps_done' = maps_done + 1
    /\ pc' = "maps"
    /\ UNCHANGED <<mxd_or_proj, document_was_opened, errors, saved, layer_sources,
                   data_tables, data_table_sources, matchVars, frameVars, compareVars,
                   replaceVars, sortVars>>

\* Lines 122-133: the loop over the maps has ended.
SaveOrRaise ==
    /\ pc = "maps"
    /\ saved' = saved_at_end(document_was_opened, errors)
    /\ pc' = IF Len(errors) # 0 THEN "raised" ELSE "done"
    /\ UNCHANGED <<mxd_or_proj, document_was_opened, errors, maps_done, layer_sources,
                   data_tables, data_table_sources, matchVars, frameVars, compareVars,
                   replaceVars, sortVars>>

NextChange ==
    OpenDocument \/ NextMap \/ ChangeLayer \/ CheckTables \/ ChangeTable \/ EndMap
        \/ SaveOrRaise

SpecChange == InitChange /\ [][NextChange]_vars

----------------------------------------------------------------------------
(* Properties of _match_layers, under SpecMatch. *)

\* How often x occurs in the sequence seq.
CountIn(seq, x) == Cardinality({i \in 1..Len(seq) : seq[i] = x})

\* The first, and the second, components of a list of pairs.
FirstOf(pairs) == [i \in 1..Len(pairs) |-> pairs[i][1]]
SecondOf(pairs) == [i \in 1..Len(pairs) |-> pairs[i][2]]

\* C1: the result of _match_layers is a strict partition: every new layer is
\* exactly once in added or the second components of matched, every old layer
\* exactly once in removed or the first components of matched, and the
\* result holds nothing else.
C1_StrictPartition ==
    pc = "done" =>
        /\ \A i \in 1..Len(now_layers) :
              CountIn(added, now_layers[i]) + CountIn(SecondOf(matched), now_layers[i]) = 1
        /\ \A j \in 1..Len(was_layers) :
              CountIn(removed, was_layers[j]) + CountIn(FirstOf(matched), was_layers[j]) = 1
        /\ Len(added) + Len(matched) = Len(now_layers)
        /\ Len(removed) + Len(matched) = Len(was_layers)

\* Whether the was layer at position j was still unresolved when the loop
\* reached the now layer at position i: no earlier now layer was resolved to it.
UnresolvedBefore(j, i) ==
    \A m \in 1..(i - 1) : resolved_now[now_layers[m].index] # was_layers[j]

\* C2: a new layer with the serviceId (not the name) of old layer X and the
\* name (not the serviceId) of another old layer Y, both unresolved, is
\* matched to X, whatever the order of X and Y in the old list.
C2_IdTestWins ==
    pc = "done" =>
        \A i \in 1..Len(now_layers) : \A x, y \in 1..Len(was_layers) :
            LET N == now_layers[i]
                X == was_layers[x]
                Y == was_layers[y]
            IN  ( /\ x # y
                  /\ same_id(X, N) /\ ~same_name(X, N)
                  /\ same_name(Y, N) /\ ~same_id(Y, N)
                  /\ UnresolvedBefore(x, i) /\ UnresolvedBefore(y, i) )
                => resolved_now[N.index] = X

\* C3: _match_layers(L, L) adds and removes nothing and pairs every layer
\* with the layer of the same index, and no pair has a field diff, so that
\* _compare_map_frames reports no layer as updated.
C3_IdentityStable ==
    (pc = "done" /\ was_layers = now_layers) =>
        /\ added = <<>>
        /\ removed = <<>>
        /\ matched = [i \in 1..Len(was_layers) |-> <<was_layers[i], now_layers[i]>>]
        /\ updated_loop(matched, 1, <<>>) = <<>>

----------------------------------------------------------------------------
(* Properties of compare, under SpecCompare. *)

\* C4: for map descriptions with different numbers of frames, whichever is
\* the longer, compare does not raise and returns max(m, n) frame diffs.
C4_UnevenFramesTolerated ==
    Len(was_description.maps) # Len(now_description.maps) =>
        /\ pc # "raised"
        /\ pc = "done" =>
              Len(differences) = Max(Len(was_description.maps), Len(now_description.maps))

----------------------------------------------------------------------------
(* Properties of _compare_map_frames, under SpecFrame. *)

\* Whether matching the two lists finds something added, removed or changed.
Reconciled(was, now) ==
    LET m == _match_layers(was, now)
    IN  m.added # <<>> \/ m.removed # <<>> \/ updated_loop(m.matched, 1, <<>>) # <<>>

\* C5: when both frames are present and a table was added, removed or
\* changed between them, the 'tables' entry of the frame diff reports it.
C5_TablesReconciled ==
    (pc = "done" /\ was_map_desc # None /\ now_map_desc # None
        /\ Reconciled(was_map_desc.tables, now_map_desc.tables))
    => map_differences.tables # <<>>

\* A layer of the 'updated' bucket without its 'diff' key.
without_diff(u) == [k \in DOMAIN u \ {"diff"} |-> u[k]]

\* The positions in 'updated' that report the new layer of a matched pair.
UpdatedFor(pair) ==
    {i \in 1..Len(map_differences.layers.updated) :
        without_diff(map_differences.layers.updated[i]) = pair[2]}

----------------------------------------------------------------------------
(* Properties of create_replacement_data_sources_list, under SpecReplace. *)

\* match_new_data_source has been called: layer_or_table and new_conn are
\* those of its last call.
Called == pc = "raised" \/ ItemsDone > 0

\* The entries made so far, in the order of the calls that made them.
AllEntries ==
    LET F[i \in 0..Len(frames_out)] ==
            IF i = 0 THEN <<>>
            ELSE F[i - 1] \o frames_out[i].layers \o frames_out[i].tables
    IN  F[Len(frames_out)] \o layers_out \o tables_out

\* The entry the last call made.
LastEntry == AllEntries[Len(AllEntries)]

\* A group layer that is not a network-analyst layer.
IsPlainGroupLayer(l) ==
    /\ l # None
    /\ "isGroupLayer" \in DOMAIN l /\ l.isGroupLayer
    /\ ~("isNetworkAnalystLayer" \in DOMAIN l /\ l.isNetworkAnalystLayer)

\* A layer or table that is not skipped.
NotSkipped(l) == l # None /\ ~IsPlainGroupLayer(l)

\* The value of key k of dict d as it is compared: lower-cased if a string.
Lowered(d, k) == IF k \in StringKeys THEN lower(d[k]) ELSE d[k]

\* Every criterion of the template, lower-cased, is an attribute of the layer,
\* lower-cased.
CriteriaHold(template, l) ==
    \A c \in DOMAIN template.matchCriteria :
        \E k \in DOMAIN l :
            lower(k) = lower(c) /\ Lowered(l, k) = Lowered(template.matchCriteria, c)

\* The first template, in the caller's order, whose criteria hold of the
\* layer; 0 when there is none.
FirstMatching(l) ==
    LET hits == {t \in 1..Len(data_source_templates) :
                    CriteriaHold(data_source_templates[t], l)}
    IN  IF hits = {} THEN 0 ELSE CHOOSE t \in hits : \A h \in hits : t <= h

IsContainer(template) ==
    /\ "matchOptions" \in DOMAIN template
    /\ "isWorkspaceContainer" \in DOMAIN template.matchOptions
    /\ template.matchOptions.isWorkspaceContainer

\* The replacement built from a template for a layer.
Replacement(template, l) ==
    LET tokens == tokenise_datasource(l.dataSource)
        base == template.dataSource.workspacePath
    IN  IF ~IsContainer(template) \/ tokens = None THEN template.dataSource
        ELSE IF tokens.schema # <<>> /\ tokens.dataSet # <<>>
        THEN [workspacePath |->
                 base \o "\\" \o tokens.schema[1] \o "." \o tokens.dataSet[1] \o ".gdb"]
        ELSE IF tokens.dataSet # <<>>
        THEN [workspacePath |-> base \o "\\" \o tokens.dataSet[1] \o ".gdb"]
        ELSE [workspacePath |-> base \o "\\" \o tokens.table[1] \o ".gdb"]

\* C7: a layer or table that is not skipped gets the replacement built from
\* the first template, in the caller's order, whose lower-cased criteria are
\* all among its lower-cased attributes, and null only when there is none.
C7_FirstTemplateWins ==
    (Called /\ NotSkipped(layer_or_table)) =>
        LET t == FirstMatching(layer_or_table)
        IN  IF t = 0 THEN new_conn = None
            ELSE /\ new_conn = Replacement(data_source_templates[t], layer_or_table)
                 /\ pc # "raised"
                 /\ LastEntry = new_conn

\* C7's case is reached: two templates with different data sources both
\* match the layer, and the replacement is the first one's.
C7_Witness ==
    /\ Called /\ NotSkipped(layer_or_table)
    /\ Len(data_source_templates) = 2
    /\ CriteriaHold(data_source_templates[1], layer_or_table)
    /\ CriteriaHold(data_source_templates[2], layer_or_table)
    /\ data_source_templates[1].dataSource # data_source_templates[2].dataSource
    /\ new_conn = Replacement(data_source_templates[1], layer_or_table)

\* C8: with raise_exception_no_change set the function fails at the first
\* layer or table that is not skipped and matches no template, and returns
\* no list; with the flag unset it never fails and that entry is null.
C8_RaiseOnNoMatch ==
    /\ pc = "raised" =>
          /\ raise_exception_no_change
          /\ NotSkipped(layer_or_table)
          /\ FirstMatching(layer_or_table) = 0
          /\ returned = None
    /\ (Called /\ raise_exception_no_change /\ NotSkipped(layer_or_table)
          /\ FirstMatching(layer_or_table) = 0) => pc = "raised"
    /\ ~raise_exception_no_change =>
          /\ pc # "raised"
          /\ (Called /\ NotSkipped(layer_or_table) /\ FirstMatching(layer_or_table) = 0)
                => LastEntry = None

\* C8's case is reached: the flag is set, a layer got its replacement, and
\* the table after it matches no template and fails the call.
C8_Witness ==
    /\ pc = "raised" /\ part = "tables"
    /\ Len(layers_out) = 1 /\ layers_out[1] # None
    /\ returned = None

\* C9: a group layer that is not a network-analyst layer gets a null entry
\* whatever the templates and the flag, and never fails the call; a group
\* layer that is a network-analyst layer is matched like any other layer.
C9_GroupLayerSkipped ==
    Called =>
        /\ IsPlainGroupLayer(layer_or_table) =>
              pc # "raised" /\ new_conn = None /\ LastEntry = None
        /\ ( /\ layer_or_table # None
             /\ get_is_true(layer_or_table, "isGroupLayer")
             /\ get_is_true(layer_or_table, "isNetworkAnalystLayer") )
           => LET t == FirstMatching(layer_or_table)
              IN  IF t = 0
                  THEN new_conn = None /\ (pc = "raised" <=> raise_exception_no_change)
                  ELSE new_conn = Replacement(data_source_templates[t], layer_or_table)

\* C9's case is reached: the flag is set, no template matches a group layer
\* that is not a network-analyst layer, and its entry is null.
C9_Witness ==
    /\ Called /\ IsPlainGroupLayer(layer_or_table)
    /\ raise_exception_no_change
    /\ FirstMatching(layer_or_table) = 0
    /\ pc = "loop" /\ LastEntry = None

\* C10: when the matched template is a workspace container and the layer's
\* data source tokenises, the workspacePath of the replacement is the
\* template's own base path and one suffix: \schema.dataSet.gdb when both are
\* present, \dataSet.gdb when only the data set is, \table.gdb otherwise; and
\* no template's dataSource is ever modified.
C10_ContainerPath ==
    /\ \A i \in 1..Len(template_sets) :
          template_sets[i].dataSource = data_source_templates[i].dataSource
    /\ (Called /\ NotSkipped(layer_or_table) /\ FirstMatching(layer_or_table) # 0) =>
          LET template == data_source_templates[FirstMatching(layer_or_table)]
              base == template.dataSource.workspacePath
              tokens == tokenise_datasource(layer_or_table.dataSource)
          IN  (IsContainer(template) /\ tokens # None) =>
                /\ (tokens.schema # <<>> /\ tokens.dataSet # <<>>) =>
                      new_conn.workspacePath =
                          base \o "\\" \o tokens.schema[1] \o "." \o tokens.dataSet[1] \o ".gdb"
                /\ (tokens.schema = <<>> /\ tokens.dataSet # <<>>) =>
                      new_conn.workspacePath = base \o "\\" \o tokens.dataSet[1] \o ".gdb"
                /\ tokens.dataSet = <<>> =>
                      new_conn.workspacePath = base \o "\\" \o tokens.table[1] \o ".gdb"

\* C10's case is reached: the same container template matched two layers in
\* a row, and the second replacement has the base path and one suffix.
C10_Witness ==
    /\ pc = "loop" /\ Len(layers_out) = 2
    /\ layers_out[1] = [workspacePath |-> "C:\\Data\\dbo.Roads.gdb"]
    /\ layers_out[2] = [workspacePath |-> "C:\\Data\\Roads.gdb"]
    /\ new_conn = layers_out[2]

----------------------------------------------------------------------------
(* Properties of _recursive_sort and _attr_deep_eq, under SpecSort. *)

\* The elements of seq, each with the number of times it occurs.
BagOf(seq) ==
    [x \in {seq[i] : i \in 1..Len(seq)} |-> Cardinality({i \in 1..Len(seq) : seq[i] = x})]

RECURSIVE Unordered(_, _)

\* What is left of a value when the order of a dict's keys and the order of a
\* list's elements are forgotten and, with fold, also the case of its strings.
Unordered(v, fold) ==
    IF v.kind = "dict"
    THEN [kind |-> "dict",
          val |-> BagOf([i \in 1..Len(v.val) |->
                      <<IF fold THEN lower(v.val[i][1]) ELSE v.val[i][1],
                        Unordered(v.val[i][2], fold)>>])]
    ELSE IF v.kind = "list"
    THEN [kind |-> "list", val |-> BagOf([i \in 1..Len(v.val) |-> Unordered(v.val[i], fold)])]
    ELSE Str(IF fold THEN lower(v.val) ELSE v.val)

\* _attr_deep_eq has run on two dicts that both have the key.
DeepCompared == pc = "done" /\ AttrKey \in DOMAIN deep_a /\ AttrKey \in DOMAIN deep_b

\* C11: two nested values that differ only in the order of dict keys, the
\* order of list elements or the letter case of string keys and string values
\* have equal canonical forms: _attr_deep_eq returns True for them.
C11_IgnoresOrderAndCase ==
    (DeepCompared /\ Unordered(deep_a[AttrKey], TRUE) = Unordered(deep_b[AttrKey], TRUE))
        => deep_eq

\* C11, amended: two nested values that differ only in the order of dict keys
\* or the order of list elements have equal canonical forms, and two that
\* differ, beyond that, in the letter case of a string key or a string value
\* have different canonical forms.
C11_IgnoresOrderOnly ==
    DeepCompared =>
        /\ Unordered(deep_a[AttrKey], FALSE) = Unordered(deep_b[AttrKey], FALSE) => deep_eq
        /\ (/\ Unordered(deep_a[AttrKey], TRUE) = Unordered(deep_b[AttrKey], TRUE)
            /\ Unordered(deep_a[AttrKey], FALSE) # Unordered(deep_b[AttrKey], FALSE))
               => ~deep_eq

\* Two dicts that hold a list each, differing in the order of the lists'
\* elements, compare equal.
C11_Witness ==
    /\ pc = "done"
    /\ deep_a = (AttrKey :> Dict(<< <<"name", List(<<Str("type"), Str("Type")>>)>> >>))
    /\ deep_b = (AttrKey :> Dict(<< <<"name", List(<<Str("Type"), Str("type")>>)>> >>))
    /\ deep_eq

----------------------------------------------------------------------------
(* Properties of change_data_sources, under SpecChange. *)

====
